---- MODULE Spec2Model ----
\* Market-Finance-Agent (src/main.py): subscriber store, daily briefing run,
\* mail notifier, markdown cleaner and headline scraper as state machines.
EXTENDS Integers, Sequences, FiniteSets, TLC

\* ---------------------------------------------------------------- bounds
MaxSubscribes == 2
MaxRuns == 1
MaxLen == 5
MaxFeed == 11

\* ------------------------------------------------------ program constants
NumStages == 4
HeadlineCap == 10

Emails == {"a@x.com", "b@x.com"}
SubIds == 1..MaxSubscribes
RunIds == 1..MaxRuns

\* The backquote character is written "BQ": the lexer reserves the character itself.
Backquote == "BQ"
Markers == {"*", "_", Backquote, "#", ">", "-"}
Whitespace == {" ", "\n"}
Chars == Markers \cup Whitespace \cup {"a"}

VARIABLES app, rows, committed, dbConns, sub, run, text, cleanOut, feed, parseFault, scraped

vars == <<app, rows, committed, dbConns, sub, run, text, cleanOut, feed, parseFault, scraped>>
storeVars == <<app, rows, committed, dbConns, sub, run>>
cleanVars == <<text, cleanOut>>
fetchVars == <<feed, parseFault, scraped>>

Range(s) == {s[k] : k \in 1..Len(s)}
Min(a, b) == IF a <= b THEN a ELSE b

\* ==================================================== state after start
\* HTTP responses of the two handlers
NoResponse == [status |-> 0, location |-> "", body |-> ""]
Redirect303 == [status |-> 303, location |-> "/", body |-> ""]
ServerError == [status |-> 500, location |-> "", body |-> ""]
SentPayload == [status |-> 200, location |-> "", body |-> "Daily Market Briefing sent to all subscribers"]

\* the connection the module opens at import
ModuleConn == <<"module", 0>>

InitStore ==
  /\ app = "importing"
  /\ rows = <<>>
  /\ committed = {}
  /\ dbConns = {}
  /\ sub = [r \in SubIds |-> [pc |-> "idle", email |-> "", outcome |-> "none",
                              changed |-> FALSE, response |-> NoResponse]]
  /\ run = [d \in RunIds |->
             [pc |-> "idle", stage |-> 0, pipelineFailed |-> FALSE,
              result |-> <<>>, cleanDone |-> FALSE, cleaned |-> <<>>,
              readDone |-> FALSE, subscribers |-> <<>>, storeAtRead |-> {},
              i |-> 0, sessions |-> <<>>, failedAt |-> 0,
              response |-> NoResponse]]

\* text is the argument being typed, cleanOut the value clean_markdown returned
InitClean == text = <<>> /\ cleanOut = [done |-> FALSE, out |-> <<>>]
InitFetch ==
  /\ feed = <<>>
  /\ parseFault = FALSE
  /\ scraped = [done |-> FALSE, raised |-> FALSE, out |-> <<>>]

Init == InitStore /\ InitClean /\ InitFetch

\* ========================================================= clean_markdown
\* re.sub(r"\*\*(.*?)\*\*", r"\1", text): the end of the leftmost lazy match
\* starting at p (index of the last character of the match), 0 when none.
BoldMatchEnd(s, p) ==
  IF p + 1 <= Len(s) /\ s[p] = "*" /\ s[p + 1] = "*"
  THEN LET Closers == {q \in (p + 2)..(Len(s) - 1) :
                         /\ s[q] = "*" /\ s[q + 1] = "*"
                         /\ \A k \in (p + 2)..(q - 1) : s[k] # "\n"}
       IN IF Closers = {} THEN 0
          ELSE (CHOOSE q \in Closers : \A r \in Closers : q <= r) + 1
  ELSE 0

RECURSIVE SubBoldFrom(_, _)
SubBoldFrom(s, p) ==
  IF p > Len(s) THEN <<>>
  ELSE LET m == BoldMatchEnd(s, p)
       IN IF m = 0 THEN <<s[p]>> \o SubBoldFrom(s, p + 1)
          ELSE SubSeq(s, p + 2, m - 2) \o SubBoldFrom(s, m + 1)

SubBold(s) == SubBoldFrom(s, 1)

\* re.sub(r"##+", "", text): a run of two or more # is dropped whole.
RECURSIVE HashRunEnd(_, _)
HashRunEnd(s, p) ==
  IF p + 1 <= Len(s) /\ s[p + 1] = "#" THEN HashRunEnd(s, p + 1) ELSE p

RECURSIVE SubHeadingFrom(_, _)
SubHeadingFrom(s, p) ==
  IF p > Len(s) THEN <<>>
  ELSE IF s[p] = "#" /\ p + 1 <= Len(s) /\ s[p + 1] = "#"
       THEN SubHeadingFrom(s, HashRunEnd(s, p) + 1)
       ELSE <<s[p]>> \o SubHeadingFrom(s, p + 1)

SubHeading(s) == SubHeadingFrom(s, 1)

\* re.sub(r"[*_BQ#>-]", "", text)
SubMarkersNoDash(s) == SelectSeq(s, LAMBDA c : c \notin (Markers \ {"-"}))
SubMarkers(s) == SelectSeq(s, LAMBDA c : c \notin Markers)

\* str.strip(): the whitespace characters of the alphabet are space and newline
RECURSIVE LStrip(_)
LStrip(s) ==
  IF s # <<>> /\ Head(s) \in Whitespace THEN LStrip(Tail(s)) ELSE s

RECURSIVE RStrip(_)
RStrip(s) ==
  IF s # <<>> /\ s[Len(s)] \in Whitespace
  THEN RStrip(SubSeq(s, 1, Len(s) - 1)) ELSE s

Strip(s) == RStrip(LStrip(s))

clean_markdown(s) == Strip(SubMarkers(SubHeading(SubBold(s))))

\* -------------------------------------------- cleaner driver (SpecClean)
TypeChar(c) ==
  /\ Len(text) < MaxLen
  /\ ~cleanOut.done
  /\ text' = Append(text, c)
  /\ UNCHANGED <<cleanOut, storeVars, fetchVars>>

CallClean ==
  /\ ~cleanOut.done
  /\ cleanOut' = [done |-> TRUE, out |-> clean_markdown(text)]
  /\ UNCHANGED <<text, storeVars, fetchVars>>

NextClean == (\E c \in Chars : TypeChar(c)) \/ CallClean

SpecClean == Init /\ [][NextClean]_vars

\* C8: clean_markdown returns, for every input string, a string holding none
\* of the marker characters * _ BQ # > - and with no whitespace at either end.
C8_CleanOutput ==
  cleanOut.done =>
    LET out == cleanOut.out IN
    /\ \A k \in 1..Len(out) : out[k] \notin Markers
    /\ out # <<>> => (out[1] \notin Whitespace /\ out[Len(out)] \notin Whitespace)

C8_Witness ==
  /\ cleanOut.done
  /\ Len(text) = MaxLen
  /\ text[1] \in Whitespace
  /\ \E k \in 1..Len(text) : text[k] = "-"
  /\ \E k \in 1..Len(text) : text[k] = "#"
  /\ cleanOut.out = <<"a">>

\* =========================================================== scrape_news
Article(entry) == [kind |-> "article", title |-> entry.title, error |-> ""]
ErrorRecord(msg) == [kind |-> "error", title |-> 0, error |-> msg]

\* feed.entries[:10]
EntriesSliceAll(f) == f
EntriesSlice(f) == SubSeq(f, 1, Min(Len(f), HeadlineCap))

\* the for loop of lines 37-42: reading a field of a malformed entry raises
RECURSIVE AppendArticles(_, _, _)
AppendArticles(entries, k, articles) ==
  IF k > Len(entries) THEN [raised |-> FALSE, msg |-> "", out |-> articles]
  ELSE IF ~entries[k].ok
       THEN [raised |-> TRUE, msg |-> "AttributeError", out |-> articles]
       ELSE AppendArticles(entries, k + 1, Append(articles, Article(entries[k])))

\* the body of the try block
ScrapeBody(f, fault) ==
  IF fault THEN [raised |-> TRUE, msg |-> "ParseError", out |-> <<>>]
  ELSE AppendArticles(EntriesSlice(f), 1, <<>>)

\* try ... except Exception as e: return str([{"error": str(e)}])
scrape_news(f, fault) ==
  LET body == ScrapeBody(f, fault)
  IN IF body.raised
     THEN [done |-> TRUE, raised |-> FALSE, out |-> <<ErrorRecord(body.msg)>>]
     ELSE [done |-> TRUE, raised |-> FALSE, out |-> body.out]

\* -------------------------------------------- scraper driver (SpecFetch)
PublishEntry(ok) ==
  /\ ~scraped.done
  /\ Len(feed) < MaxFeed
  /\ feed' = Append(feed, [title |-> Len(feed) + 1, ok |-> ok])
  /\ UNCHANGED <<parseFault, scraped, storeVars, cleanVars>>

BreakTransport ==
  /\ ~scraped.done
  /\ ~parseFault
  /\ parseFault' = TRUE
  /\ UNCHANGED <<feed, scraped, storeVars, cleanVars>>

CallScrape ==
  /\ ~scraped.done
  /\ scraped' = scrape_news(feed, parseFault)
  /\ UNCHANGED <<feed, parseFault, storeVars, cleanVars>>

NextFetch == (\E ok \in BOOLEAN : PublishEntry(ok)) \/ BreakTransport \/ CallScrape

SpecFetch == Init /\ [][NextFetch]_vars

FaultFree ==
  /\ ~parseFault
  /\ \A k \in 1..Min(Len(feed), HeadlineCap) : feed[k].ok

\* C9: scrape_news never raises; a fault-free feed of n entries yields the
\* first min(n, 10) entries in source order; any fault while fetching or
\* reading an entry yields exactly one error record carrying the failure
\* message and no headline entry.
C9_ScrapeResult ==
  scraped.done =>
    /\ ~scraped.raised
    /\ FaultFree =>
         /\ Len(scraped.out) = Min(Len(feed), HeadlineCap)
         /\ \A k \in 1..Len(scraped.out) :
              scraped.out[k] = [kind |-> "article", title |-> feed[k].title, error |-> ""]
    /\ ~FaultFree =>
         /\ Len(scraped.out) = 1
         /\ scraped.out[1].kind = "error"
         /\ scraped.out[1].error \in {"ParseError", "AttributeError"}

C9_Witness ==
  /\ scraped.done
  /\ Len(feed) > HeadlineCap
  /\ FaultFree
  /\ ~feed[Len(feed)].ok
  /\ Len(scraped.out) = HeadlineCap

\* ===================================================== subscriber store
\* INSERT INTO subscribers (email) VALUES (?) on a table whose email column
\* is the PRIMARY KEY: a present key raises IntegrityError, the table as is.
InsertRowNoKey(table, email) == [ok |-> TRUE, table |-> Append(table, email)]
InsertRow(table, email) ==
  IF email \in Range(table)
  THEN [ok |-> FALSE, table |-> table]
  ELSE [ok |-> TRUE, table |-> Append(table, email)]

\* SELECT email FROM subscribers; fetchall(): every row, in rowid order
FetchAllFirst(table) == SubSeq(table, 1, Min(1, Len(table)))
FetchAll(table) == table

\* ---------------------------------------------------- module import
\* conn = sqlite3.connect(DB_FILE); CREATE TABLE IF NOT EXISTS; commit.
\* No statement closes conn afterwards.
ModuleImport ==
  /\ app = "importing"
  /\ app' = "serving"
  /\ dbConns' = dbConns \cup {ModuleConn}
  /\ UNCHANGED <<rows, committed, sub, run, cleanVars, fetchVars>>

\* --------------------------------------------------- POST /subscribe
\* requests are numbered in order of arrival
SubscribeConnect(r, email) ==
  /\ app = "serving"
  /\ sub[r].pc = "idle"
  /\ \A q \in SubIds : q < r => sub[q].pc # "idle"
  /\ sub' = [sub EXCEPT ![r].pc = "connected", ![r].email = email]
  /\ dbConns' = dbConns \cup {<<"sub", r>>}
  /\ UNCHANGED <<app, rows, committed, run, cleanVars, fetchVars>>

SubscribeInsert(r) ==
  /\ sub[r].pc = "connected"
  /\ InsertRow(rows, sub[r].email).ok
  /\ rows' = InsertRow(rows, sub[r].email).table
  /\ committed' = committed \cup {sub[r].email}
  /\ sub' = [sub EXCEPT ![r].pc = "tried", ![r].outcome = "inserted",
                        ![r].changed = (rows' # rows)]
  /\ UNCHANGED <<app, dbConns, run, cleanVars, fetchVars>>

SubscribeIntegrityErrorRaise(r) ==
  /\ sub[r].pc = "connected"
  /\ ~InsertRow(rows, sub[r].email).ok
  /\ rows' = InsertRow(rows, sub[r].email).table
  /\ sub' = [sub EXCEPT ![r].pc = "responded", ![r].outcome = "duplicate",
                        ![r].changed = (rows' # rows),
                        ![r].response = ServerError]
  /\ UNCHANGED <<app, committed, dbConns, run, cleanVars, fetchVars>>

SubscribeIntegrityError(r) ==
  /\ sub[r].pc = "connected"
  /\ ~InsertRow(rows, sub[r].email).ok
  /\ rows' = InsertRow(rows, sub[r].email).table
  /\ sub' = [sub EXCEPT ![r].pc = "tried", ![r].outcome = "duplicate",
                        ![r].changed = (rows' # rows)]
  /\ UNCHANGED <<app, committed, dbConns, run, cleanVars, fetchVars>>

SubscribeReturn(r) ==
  /\ sub[r].pc = "tried"
  /\ dbConns' = dbConns \ {<<"sub", r>>}
  /\ sub' = [sub EXCEPT ![r].pc = "responded", ![r].response = Redirect303]
  /\ UNCHANGED <<app, rows, committed, run, cleanVars, fetchVars>>

\* ---------------------------------------------------- GET /send-daily
\* texts the final stage of the crew may hand back
Results == { <<"*", "*", "u", "p", "*", "*">>, <<"#", "#", " ", "d", "n", "\n">> }

StartRun(d) ==
  /\ app = "serving"
  /\ run[d].pc = "idle"
  /\ \A q \in RunIds : q < d => run[q].pc # "idle"
  /\ run' = [run EXCEPT ![d].pc = "kickoff"]
  /\ UNCHANGED <<app, rows, committed, dbConns, sub, cleanVars, fetchVars>>

\* crew.kickoff(): the four tasks run in sequence
StageDone(d) ==
  /\ run[d].pc = "kickoff"
  /\ run[d].stage + 1 < NumStages
  /\ run' = [run EXCEPT ![d].stage = @ + 1]
  /\ UNCHANGED <<app, rows, committed, dbConns, sub, cleanVars, fetchVars>>

\* the last task ends: kickoff returns the briefing text
KickoffReturn(d, t) ==
  /\ run[d].pc = "kickoff"
  /\ run[d].stage + 1 = NumStages
  /\ run' = [run EXCEPT ![d].stage = NumStages, ![d].result = t,
                         ![d].pc = "clean"]
  /\ UNCHANGED <<app, rows, committed, dbConns, sub, cleanVars, fetchVars>>

StageFailIgnored(d) ==
  /\ run[d].pc = "kickoff"
  /\ run[d].stage < NumStages
  /\ run' = [run EXCEPT ![d].pc = "clean", ![d].pipelineFailed = TRUE]
  /\ UNCHANGED <<app, rows, committed, dbConns, sub, cleanVars, fetchVars>>

StageFail(d) ==
  /\ run[d].pc = "kickoff"
  /\ run[d].stage < NumStages
  /\ run' = [run EXCEPT ![d].pc = "failed", ![d].pipelineFailed = TRUE,
                         ![d].response = ServerError]
  /\ UNCHANGED <<app, rows, committed, dbConns, sub, cleanVars, fetchVars>>

CleanResult(d) ==
  /\ run[d].pc = "clean"
  /\ run' = [run EXCEPT ![d].cleaned = clean_markdown(run[d].result),
                         ![d].cleanDone = TRUE, ![d].pc = "connect"]
  /\ UNCHANGED <<app, rows, committed, dbConns, sub, cleanVars, fetchVars>>

RunConnect(d) ==
  /\ run[d].pc = "connect"
  /\ dbConns' = dbConns \cup {<<"run", d>>}
  /\ run' = [run EXCEPT ![d].pc = "select"]
  /\ UNCHANGED <<app, rows, committed, sub, cleanVars, fetchVars>>

RunSelect(d) ==
  /\ run[d].pc = "select"
  /\ run' = [run EXCEPT ![d].subscribers = FetchAll(rows), ![d].readDone = TRUE,
                         ![d].storeAtRead = committed, ![d].pc = "close"]
  /\ UNCHANGED <<app, rows, committed, dbConns, sub, cleanVars, fetchVars>>

RunClose(d) ==
  /\ run[d].pc = "close"
  /\ dbConns' = dbConns \ {<<"run", d>>}
  /\ run' = [run EXCEPT ![d].pc = "loop", ![d].i = 1]
  /\ UNCHANGED <<app, rows, committed, sub, cleanVars, fetchVars>>

\* for sub in subscribers: the list the loop walks
LoopListLive(d) == rows
LoopList(d) == run[d].subscribers

\* with smtplib.SMTP("smtp.gmail.com", 587) as server
SmtpOpen(d) ==
  /\ run[d].pc = "loop"
  /\ run[d].i <= Len(LoopList(d))
  /\ run' = [run EXCEPT
       ![d].sessions = Append(@, [to |-> LoopList(d)[run[d].i], body |-> run[d].cleaned,
                                  open |-> TRUE, delivered |-> FALSE]),
       ![d].pc = "smtp"]
  /\ UNCHANGED <<app, rows, committed, dbConns, sub, cleanVars, fetchVars>>

\* the connection cannot be established: SMTP(...) raises
SmtpOpenFail(d) ==
  /\ run[d].pc = "loop"
  /\ run[d].i <= Len(LoopList(d))
  /\ run' = [run EXCEPT ![d].pc = "failed", ![d].failedAt = run[d].i,
                         ![d].response = ServerError]
  /\ UNCHANGED <<app, rows, committed, dbConns, sub, cleanVars, fetchVars>>

\* starttls, login, sendmail
SmtpSend(d) ==
  /\ run[d].pc = "smtp"
  /\ run' = [run EXCEPT ![d].sessions[Len(run[d].sessions)].delivered = TRUE,
                         ![d].pc = "sent"]
  /\ UNCHANGED <<app, rows, committed, dbConns, sub, cleanVars, fetchVars>>

\* starttls, login or sendmail raises: the with block closes the session
\* and the exception leaves send_email and run_daily_report
SmtpSendFailCaught(d) ==
  /\ run[d].pc = "smtp"
  /\ run' = [run EXCEPT ![d].sessions[Len(run[d].sessions)].open = FALSE,
                         ![d].pc = "loop", ![d].i = @ + 1,
                         ![d].failedAt = run[d].i]
  /\ UNCHANGED <<app, rows, committed, dbConns, sub, cleanVars, fetchVars>>

SmtpSendFail(d) ==
  /\ run[d].pc = "smtp"
  /\ run' = [run EXCEPT ![d].sessions[Len(run[d].sessions)].open = FALSE,
                         ![d].pc = "failed", ![d].failedAt = run[d].i,
                         ![d].response = ServerError]
  /\ UNCHANGED <<app, rows, committed, dbConns, sub, cleanVars, fetchVars>>

\* end of the with block: the session is quit and closed
SmtpCloseKeepOpen(d) ==
  /\ run[d].pc = "sent"
  /\ run' = [run EXCEPT ![d].pc = "loop", ![d].i = @ + 1]
  /\ UNCHANGED <<app, rows, committed, dbConns, sub, cleanVars, fetchVars>>

SmtpClose(d) ==
  /\ run[d].pc = "sent"
  /\ run' = [run EXCEPT ![d].sessions[Len(run[d].sessions)].open = FALSE,
                         ![d].pc = "loop", ![d].i = @ + 1]
  /\ UNCHANGED <<app, rows, committed, dbConns, sub, cleanVars, fetchVars>>

RunReturn(d) ==
  /\ run[d].pc = "loop"
  /\ run[d].i > Len(LoopList(d))
  /\ run' = [run EXCEPT ![d].pc = "done", ![d].response = SentPayload]
  /\ UNCHANGED <<app, rows, committed, dbConns, sub, cleanVars, fetchVars>>

Next ==
  \/ ModuleImport
  \/ \E r \in SubIds, e \in Emails : SubscribeConnect(r, e)
  \/ \E r \in SubIds : SubscribeInsert(r)
  \/ \E r \in SubIds : SubscribeIntegrityError(r)
  \/ \E r \in SubIds : SubscribeReturn(r)
  \/ \E d \in RunIds : StartRun(d)
  \/ \E d \in RunIds : StageDone(d)
  \/ \E d \in RunIds, t \in Results : KickoffReturn(d, t)
  \/ \E d \in RunIds : StageFail(d)
  \/ \E d \in RunIds : CleanResult(d)
  \/ \E d \in RunIds : RunConnect(d)
  \/ \E d \in RunIds : RunSelect(d)
  \/ \E d \in RunIds : RunClose(d)
  \/ \E d \in RunIds : SmtpOpen(d)
  \/ \E d \in RunIds : SmtpOpenFail(d)
  \/ \E d \in RunIds : SmtpSend(d)
  \/ \E d \in RunIds : SmtpSendFail(d)
  \/ \E d \in RunIds : SmtpClose(d)
  \/ \E d \in RunIds : RunReturn(d)

Spec == Init /\ [][Next]_vars

\* ================================================================ claims
RowsOf(email) == {k \in 1..Len(rows) : rows[k] = email}

\* C1: the store holds each email at most once; a subscribe of an email
\* already present leaves the rows as they are, so an email subscribed once
\* or many times has exactly one row.
C1_EmailUnique ==
  /\ \A j, k \in 1..Len(rows) : rows[j] = rows[k] => j = k
  /\ \A r \in SubIds :
       sub[r].outcome \in {"inserted", "duplicate"} =>
         Cardinality(RowsOf(sub[r].email)) = 1

C1_Witness ==
  \E r, q \in SubIds :
    /\ sub[r].email = sub[q].email
    /\ sub[r].outcome = "inserted" /\ sub[r].pc = "responded"
    /\ sub[q].outcome = "duplicate" /\ sub[q].pc = "responded"
    /\ Cardinality(RowsOf(sub[r].email)) = 1

CleanedResults == [t \in Results |-> clean_markdown(t)]

\* C2: a run in which no send fails opens one mail session per address of
\* its subscriber list, in list order, each with the cleaned briefing as
\* body, and a session is closed before the next one of the run is opened.
C2_SessionPerRecipient ==
  \A d \in RunIds :
    LET ss == run[d].sessions IN
    /\ \A k \in 1..Len(ss) :
         /\ k < Len(ss) => ~ss[k].open
         /\ k <= Len(run[d].subscribers) /\ ss[k].to = run[d].subscribers[k]
         /\ ss[k].body = run[d].cleaned
         /\ ss[k].body = CleanedResults[run[d].result]
    /\ run[d].pc = "loop" => \A k \in 1..Len(ss) : ~ss[k].open
    /\ run[d].pc = "done" =>
         /\ Len(ss) = Len(run[d].subscribers)
         /\ \A k \in 1..Len(ss) : ss[k].delivered /\ ~ss[k].open

C2_Witness ==
  \E d \in RunIds :
    /\ run[d].pc = "done"
    /\ Len(run[d].subscribers) = 2
    /\ Len(run[d].sessions) = 2
    /\ run[d].sessions[1].body = run[d].sessions[2].body
    /\ run[d].sessions[1].to # run[d].sessions[2].to

\* C3: when the session for the i-th recipient fails the loop stops there:
\* no session exists for a later recipient, every earlier recipient has
\* been sent to, and the request fails without the success payload.
C3_AbortAtFirstFailure ==
  \A d \in RunIds :
    /\ run[d].failedAt # 0 =>
         /\ run[d].pc = "failed"
         /\ run[d].response = ServerError
         /\ Len(run[d].sessions) <= run[d].failedAt
         /\ Len(run[d].sessions) >= run[d].failedAt - 1
         /\ \A k \in 1..(run[d].failedAt - 1) :
              /\ run[d].sessions[k].to = run[d].subscribers[k]
              /\ run[d].sessions[k].delivered
         /\ \A k \in 1..Len(run[d].sessions) :
              k = run[d].failedAt => ~run[d].sessions[k].delivered
    /\ run[d].response = SentPayload => run[d].failedAt = 0 /\ run[d].pc = "done"

C3_Witness ==
  \E d \in RunIds :
    /\ run[d].pc = "failed"
    /\ run[d].failedAt = 2
    /\ Len(run[d].subscribers) = 2
    /\ Len(run[d].sessions) = 2
    /\ run[d].sessions[1].delivered
    /\ ~run[d].sessions[2].delivered

\* C4: a run goes pipeline, cleaner, store read, notifier: no session is
\* opened before the pipeline has completed, and a run whose pipeline
\* fails reads no store row and sends no mail.
C4_PipelineFirst ==
  \A d \in RunIds :
    /\ run[d].cleanDone => run[d].stage = NumStages /\ ~run[d].pipelineFailed
    /\ run[d].readDone => run[d].cleanDone
    /\ <<"run", d>> \in dbConns => run[d].cleanDone
    /\ run[d].sessions # <<>> => run[d].readDone
    /\ run[d].pipelineFailed =>
         /\ run[d].pc = "failed"
         /\ ~run[d].readDone
         /\ <<"run", d>> \notin dbConns
         /\ run[d].sessions = <<>>

C4_Witness ==
  \E d \in RunIds :
    /\ run[d].pipelineFailed
    /\ run[d].stage = NumStages - 1
    /\ rows # <<>>
    /\ run[d].sessions = <<>>

\* C5: a committed subscriber is never removed: every email whose insert
\* has committed is a row of the store, and is in the result of every
\* store read made after the commit.
C5_NeverRemoved ==
  /\ \A e \in committed : e \in Range(rows)
  /\ \A d \in RunIds :
       run[d].readDone => \A e \in run[d].storeAtRead : e \in Range(run[d].subscribers)

C5_Witness ==
  \E d \in RunIds :
    /\ run[d].readDone
    /\ Cardinality(run[d].storeAtRead) = 2
    /\ Cardinality(Range(run[d].subscribers)) = 2

\* C6: POST /subscribe answers 303 to / whether the insert committed or hit
\* the uniqueness violation; the violation is swallowed in the handler and
\* leaves the store as it was.
C6_SameRedirect ==
  \A r \in SubIds :
    /\ sub[r].pc = "responded" => sub[r].response = Redirect303
    /\ sub[r].outcome = "duplicate" => ~sub[r].changed
    /\ sub[r].outcome = "duplicate" => sub[r].pc \in {"tried", "responded"}

C6_Witness ==
  \E r, q \in SubIds :
    /\ sub[r].outcome = "inserted" /\ sub[r].pc = "responded"
    /\ sub[q].outcome = "duplicate" /\ sub[q].pc = "responded"
    /\ sub[r].response = sub[q].response

StoreOperationInProgress ==
  \/ app = "importing"
  \/ \E r \in SubIds : sub[r].pc \in {"connected", "tried"}
  \/ \E d \in RunIds : run[d].pc \in {"select", "close"}

\* C7: whenever no store operation is in progress, no store connection is
\* open.
C7_NoConnectionWhenIdle ==
  ~StoreOperationInProgress => dbConns = {}

\* C10: the recipients of a run are exactly the rows of its one store read:
\* an email committed after the read gets no message from the run, and in
\* a run without a failed send every email committed before the read gets
\* exactly one.
C10_RecipientsAreSnapshot ==
  \A d \in RunIds :
    LET ss == run[d].sessions IN
    /\ run[d].readDone =>
         /\ Range(run[d].subscribers) = run[d].storeAtRead
         /\ Len(run[d].subscribers) = Cardinality(run[d].storeAtRead)
    /\ \A k \in 1..Len(ss) : ss[k].to \in run[d].storeAtRead
    /\ \A j, k \in 1..Len(ss) : ss[j].to = ss[k].to => j = k
    /\ run[d].pc = "done" =>
         \A e \in run[d].storeAtRead :
           \E k \in 1..Len(ss) : ss[k].to = e /\ ss[k].delivered

C10_Witness ==
  \E d \in RunIds :
    /\ run[d].pc = "done"
    /\ run[d].sessions # <<>>
    /\ \E r \in SubIds :
         /\ sub[r].outcome = "inserted"
         /\ sub[r].email \notin run[d].storeAtRead
====
